---- MODULE Spec2Model ----
(***************************************************************************)
(* A model of package gyro (src/gyro.go), the last Loop definition of the  *)
(* file (lines 349-499, the one with SetRecoverFunc): a fixed-cadence game *)
(* loop with Start/Stop lifecycle, pacing sleep and a frames-per-second    *)
(* meter.                                                                  *)
(*                                                                         *)
(* Goroutines are the members of Ctx.  Every access to a field of the Loop *)
(* that the code makes without synchronisation is a step of its own, so    *)
(* the interleavings of Start, Stop, run and the setters are the ones the  *)
(* Go scheduler can produce.  Time is an integer number of milliseconds.   *)
(***************************************************************************)
EXTENDS Integers, Sequences, FiniteSets, TLC

(* ---------------------------------------------------------------- bounds *)

\* Channels that run() makes in the lifecycle specification.
MaxChans == 2
\* Setter calls made while a goroutine is inside Start().
MaxSets == 1
\* Iterations one run() begins in the lifecycle specification.
MaxIter == 2
\* Longest time, in ms, that one callback invocation takes.
MaxWork == 1
\* Longest time, in ms, by which time.Sleep oversleeps.
MaxJitter == 1
\* Largest magnitude of a rate passed to SetTargetFps in the configuration
\* specification.
MaxRate == 4

(* ------------------------------------------------------ program constants *)

DEFAULT_FPS == 60
\* time.Since(lastSecond).Seconds() >= 1, in milliseconds
MS_PER_SECOND == 1000

(* ------------------------------------------------------------ vocabulary *)

\* The goroutines that call into the Loop.
Ctx == {"g1", "g2"}

NILFN == "nil"
FN == "fn"
Funcs == {NILFN, FN}

\* Channel references: 0 is the nil channel, i > 0 is the i-th channel made.
NILCH == 0
OPEN == "open"
CLOSED == "closed"

\* What a call returned: nothing yet; nil (told apart by the path that
\* returned it: the end of run() or the close in Stop(), the early return of
\* a call that found nothing to do, the deferred recover); the error of
\* Start(); or a panic that left the call.
NONE == "none"
NIL == "nil"
NOOP == "nil (nothing to do)"
RECOVERED == "nil (recovered)"
Nils == {NIL, NOOP, RECOVERED}
ERR_NO_UPDATE_FUNC == "ERR_NO_UPDATE_FUNC"
PANIC_CLOSE_NIL == "panic: close of nil channel"
PANIC_CLOSE_CLOSED == "panic: close of closed channel"
PANIC_CALLBACK == "panic: callback"
PANIC_NIL_FUNC == "panic: nil func call"
Panics == {PANIC_CLOSE_NIL, PANIC_CLOSE_CLOSED, PANIC_CALLBACK, PANIC_NIL_FUNC}

Phases == <<"input", "update", "render">>

VARIABLES
    \* fields of Loop (src/gyro.go:349-369)
    targetFps, msPerFrame, stopCh, isRunning,
    input, update, render, recoverFunc, currentFps,
    \* the channels made so far: chans[i] is OPEN or CLOSED
    chans,
    \* the wall clock, in ms
    now,
    \* per goroutine: position, result of its last call, whether Start
    \* registered its deferred recover, and the locals of run()
    pc, op, ret, deferred, frameCounter, lastFrame, lastSecond, start, wakeAt,
    \* history (never read by the program)
    callIters,   \* iterations begun by the goroutine's current Start()
    iterSeq,     \* phases invoked in the goroutine's current iteration
    updates,     \* update invocations of the goroutine's current Start()
    updateArg,   \* argument of the goroutine's last update invocation
    phaseEnd,    \* when the phases of its previous iteration completed
    stopCalled,  \* a Stop() found isRunning true during this Start()
    stopDone,    \* such a Stop() has returned nil during this run
    afterStop,   \* phases invoked by this run after that
    midSets,     \* setter calls made while a goroutine was inside Start()
    pubIter,     \* iterations the run had begun when its meter last published
    asked        \* argument of the last SetTargetFps call

loopVars == <<targetFps, msPerFrame, stopCh, isRunning,
              input, update, render, recoverFunc, currentFps>>
localVars == <<frameCounter, lastFrame, lastSecond, start>>
callVars == <<callIters, iterSeq, updates, updateArg, phaseEnd,
              stopCalled, stopDone, afterStop, pubIter>>
histVars == <<callIters, iterSeq, updates, updateArg, phaseEnd,
              stopCalled, stopDone, afterStop, pubIter, midSets, asked>>
vars == <<loopVars, chans, now, pc, op, ret, deferred, localVars, wakeAt,
          histVars>>

(* --------------------------------------------------------------- helpers *)

Max(a, b) == IF a >= b THEN a ELSE b

\* int(1.0 / float32(fps) * 1000): for every fps >= 1 the float32 product
\* truncates to the integer quotient 1000 \div fps.
MsPerFrame(fps) == MS_PER_SECOND \div fps

\* A receive from ch in a select with a default case is ready only when ch
\* is a closed channel; a receive from the nil channel never is.
Readable(ch) == ch # NILCH /\ chans[ch] = CLOSED

\* pc values at which a goroutine is inside run()
RunPcs == {"run_make", "run_select", "run_input", "in_input", "run_update",
           "in_update", "run_render", "in_render", "run_finish", "run_sleep"}
\* pc values at which a goroutine is executing the for loop of run()
LoopPcs == RunPcs \ {"run_make"}
InCallback == {"in_input", "in_update", "in_render"}

NoCalls == [k \in {"input", "update", "render"} |-> 0]

\* The fields of a Loop built by NewLoop() followed by SetTargetFps(fps),
\* SetInputFunc(in), SetUpdateFunc(up), SetRenderFunc(re) and
\* SetRecoverFunc(rec).
Built(fps, in, up, re, rec) ==
    /\ targetFps = Max(fps, 1)
    /\ msPerFrame = MsPerFrame(Max(fps, 1))
    /\ stopCh = NILCH
    /\ isRunning = FALSE
    /\ input = in
    /\ update = up
    /\ render = re
    /\ recoverFunc = rec
    /\ currentFps = 0
    /\ asked = fps

\* NewLoop(): a zero Loop with SetTargetFps(DEFAULT_FPS) applied.
NewLoop == Built(DEFAULT_FPS, NILFN, NILFN, NILFN, NILFN)

\* No channel made, the clock at 0, no call made.
InitRest ==
    /\ chans = <<>>
    /\ now = 0
    /\ op = [c \in Ctx |-> "none"]
    /\ ret = [c \in Ctx |-> NONE]
    /\ deferred = [c \in Ctx |-> FALSE]
    /\ frameCounter = [c \in Ctx |-> 0]
    /\ lastFrame = [c \in Ctx |-> 0]
    /\ lastSecond = [c \in Ctx |-> 0]
    /\ start = [c \in Ctx |-> 0]
    /\ callIters = [c \in Ctx |-> 0]
    /\ iterSeq = [c \in Ctx |-> <<>>]
    /\ updates = [c \in Ctx |-> 0]
    /\ updateArg = [c \in Ctx |-> 0]
    /\ phaseEnd = [c \in Ctx |-> 0]
    /\ stopCalled = [c \in Ctx |-> FALSE]
    /\ stopDone = [c \in Ctx |-> FALSE]
    /\ afterStop = [c \in Ctx |-> NoCalls]
    /\ midSets = 0
    /\ pubIter = [c \in Ctx |-> 0]

\* Target rates of the lifecycle specification.  Their frame budget is
\* 0 ms, so run() never sleeps and the clock stands still: a run that sleeps
\* at line 494 differs from one that waits to be scheduled at line 463 only
\* in its timestamps, and states that differ only in timestamps coincide.
\* Pacing and the meter are checked in the timed specification.
FastRates == {2000}

Init ==
    /\ \E fps \in FastRates : Built(fps, NILFN, NILFN, NILFN, NILFN)
    /\ InitRest
    /\ pc = [c \in Ctx |-> "idle"]
    /\ wakeAt = [c \in Ctx |-> 0]

(* --------------------------------------------------------------- setters *)

\* A goroutine is inside Start().
Busy == \E d \in Ctx : pc[d] \in {"Start_isRunning", "Start_set"} \cup RunPcs

\* The history of a setter call.
NoteSet == midSets' = IF Busy THEN midSets + 1 ELSE midSets

\* SetTargetFps without the max(fps, 1) of line 383.
SetTargetFps_NoClamp(c, fps) ==
    /\ pc[c] = "idle"
    /\ NoteSet
    /\ targetFps' = fps
    /\ msPerFrame' = MsPerFrame(Max(fps, 1))
    /\ asked' = fps
    /\ UNCHANGED <<stopCh, isRunning, input, update, render, recoverFunc,
                   currentFps, chans, now, pc, op, ret, deferred, localVars,
                   wakeAt, callVars>>

\* SetTargetFps(fps), lines 382-386
SetTargetFps(c, fps) ==
    /\ pc[c] = "idle"
    /\ NoteSet
    /\ targetFps' = Max(fps, 1)
    /\ msPerFrame' = MsPerFrame(Max(fps, 1))
    /\ asked' = fps
    /\ UNCHANGED <<stopCh, isRunning, input, update, render, recoverFunc,
                   currentFps, chans, now, pc, op, ret, deferred, localVars,
                   wakeAt, callVars>>

\* GetTargetFps(), lines 388-390: return l.targetFps.  The result is kept
\* as the decimal string of the integer, like the other results in ret.
GetTargetFps(c) ==
    /\ pc[c] = "idle"
    /\ op' = [op EXCEPT ![c] = "GetTargetFps"]
    /\ ret' = [ret EXCEPT ![c] = ToString(targetFps)]
    /\ UNCHANGED <<loopVars, chans, now, pc, deferred, localVars, wakeAt,
                   histVars>>

\* SetUpdateFunc(update)
SetUpdateFunc(c, f) ==
    /\ pc[c] = "idle"
    /\ NoteSet
    /\ update' = f
    /\ UNCHANGED asked
    /\ UNCHANGED <<targetFps, msPerFrame, stopCh, isRunning, input, render,
                   recoverFunc, currentFps, chans, now, pc, op, ret, deferred,
                   localVars, wakeAt, callVars>>

\* SetInputFunc(input)
SetInputFunc(c, f) ==
    /\ pc[c] = "idle"
    /\ NoteSet
    /\ input' = f
    /\ UNCHANGED asked
    /\ UNCHANGED <<targetFps, msPerFrame, stopCh, isRunning, update, render,
                   recoverFunc, currentFps, chans, now, pc, op, ret, deferred,
                   localVars, wakeAt, callVars>>

\* SetRenderFunc(render)
SetRenderFunc(c, f) ==
    /\ pc[c] = "idle"
    /\ NoteSet
    /\ render' = f
    /\ UNCHANGED asked
    /\ UNCHANGED <<targetFps, msPerFrame, stopCh, isRunning, input, update,
                   recoverFunc, currentFps, chans, now, pc, op, ret, deferred,
                   localVars, wakeAt, callVars>>

\* SetRecoverFunc(recover)
SetRecoverFunc(c, f) ==
    /\ pc[c] = "idle"
    /\ NoteSet
    /\ recoverFunc' = f
    /\ UNCHANGED asked
    /\ UNCHANGED <<targetFps, msPerFrame, stopCh, isRunning, input, update,
                   render, currentFps, chans, now, pc, op, ret, deferred,
                   localVars, wakeAt, callVars>>

(* ----------------------------------------------------------------- Start *)

\* The locals of run() and the history of a call end with the call.
EndCall(c) ==
    /\ frameCounter' = [frameCounter EXCEPT ![c] = 0]
    /\ lastFrame' = [lastFrame EXCEPT ![c] = 0]
    /\ lastSecond' = [lastSecond EXCEPT ![c] = 0]
    /\ start' = [start EXCEPT ![c] = 0]
    /\ deferred' = [deferred EXCEPT ![c] = FALSE]
    /\ callIters' = [callIters EXCEPT ![c] = 0]
    /\ iterSeq' = [iterSeq EXCEPT ![c] = <<>>]
    /\ updates' = [updates EXCEPT ![c] = 0]
    /\ updateArg' = [updateArg EXCEPT ![c] = 0]
    /\ phaseEnd' = [phaseEnd EXCEPT ![c] = 0]
    /\ stopCalled' = [stopCalled EXCEPT ![c] = FALSE]
    /\ stopDone' = [stopDone EXCEPT ![c] = FALSE]
    /\ afterStop' = [afterStop EXCEPT ![c] = NoCalls]
    /\ wakeAt' = [wakeAt EXCEPT ![c] = 0]
    /\ pubIter' = [pubIter EXCEPT ![c] = 0]

\* StartCall without the check of lines 432-434.
StartCall_NoUpdateCheck(c) ==
    /\ pc[c] = "idle"
    /\ op' = [op EXCEPT ![c] = "Start"]
    /\ pc' = [pc EXCEPT ![c] = "Start_isRunning"]
    /\ ret' = [ret EXCEPT ![c] = NONE]
    /\ deferred' = [deferred EXCEPT ![c] = (recoverFunc # NILFN)]
    /\ UNCHANGED <<loopVars, chans, now, localVars, wakeAt, histVars>>

\* Start(), lines 423-434: the deferred recover is registered only when a
\* recover handler is set at this moment; if l.update == nil, Start()
\* returns the error (the deferred function then runs with recover() == nil
\* and does nothing).
StartCall(c) ==
    /\ pc[c] = "idle"
    /\ op' = [op EXCEPT ![c] = "Start"]
    /\ IF update = NILFN
       THEN /\ ret' = [ret EXCEPT ![c] = ERR_NO_UPDATE_FUNC]
            /\ UNCHANGED <<pc, deferred>>
       ELSE /\ pc' = [pc EXCEPT ![c] = "Start_isRunning"]
            /\ ret' = [ret EXCEPT ![c] = NONE]
            /\ deferred' = [deferred EXCEPT ![c] = (recoverFunc # NILFN)]
    /\ UNCHANGED <<loopVars, chans, now, localVars, wakeAt, histVars>>

\* StartCheckRunning without the early return of lines 436-438.
StartCheckRunning_Ignore(c) ==
    /\ pc[c] = "Start_isRunning"
    /\ pc' = [pc EXCEPT ![c] = "Start_set"]
    /\ UNCHANGED <<loopVars, chans, now, op, ret, deferred, localVars,
                   wakeAt, histVars>>

\* Start(), lines 436-438: if l.isRunning { return nil }
StartCheckRunning(c) ==
    /\ pc[c] = "Start_isRunning"
    /\ IF isRunning
       THEN /\ pc' = [pc EXCEPT ![c] = "idle"]
            /\ ret' = [ret EXCEPT ![c] = NOOP]
            /\ deferred' = [deferred EXCEPT ![c] = FALSE]
       ELSE /\ pc' = [pc EXCEPT ![c] = "Start_set"]
            /\ UNCHANGED <<ret, deferred>>
    /\ UNCHANGED <<loopVars, chans, now, op, localVars, wakeAt, histVars>>

\* Start(), line 440: l.isRunning = true, then the call of run().
StartSetRunning(c) ==
    /\ pc[c] = "Start_set"
    /\ isRunning' = TRUE
    /\ pc' = [pc EXCEPT ![c] = "run_make"]
    /\ UNCHANGED <<targetFps, msPerFrame, stopCh, input, update, render,
                   recoverFunc, currentFps, chans, now, op, ret, deferred,
                   localVars, wakeAt, histVars>>

(* ------------------------------------------------------------------ Stop *)

\* StopCall without the early return of lines 447-449.
StopCall_NoCheck(c) ==
    /\ pc[c] = "idle"
    /\ op' = [op EXCEPT ![c] = "Stop"]
    /\ pc' = [pc EXCEPT ![c] = "Stop_set"]
    /\ ret' = [ret EXCEPT ![c] = NONE]
    /\ stopCalled' = [r \in Ctx |-> stopCalled[r] \/ pc[r] \in RunPcs]
    /\ UNCHANGED <<loopVars, chans, now, deferred, localVars, wakeAt,
                   callIters, iterSeq, updates, updateArg, phaseEnd,
                   stopDone, afterStop, midSets,
                   pubIter, asked>>

\* Stop(), lines 446-449: if !l.isRunning { return nil }
StopCall(c) ==
    /\ pc[c] = "idle"
    /\ op' = [op EXCEPT ![c] = "Stop"]
    /\ IF ~isRunning
       THEN /\ ret' = [ret EXCEPT ![c] = NOOP]
            /\ UNCHANGED <<pc, stopCalled>>
       ELSE /\ pc' = [pc EXCEPT ![c] = "Stop_set"]
            /\ ret' = [ret EXCEPT ![c] = NONE]
            /\ stopCalled' = [r \in Ctx |-> stopCalled[r] \/ pc[r] \in RunPcs]
    /\ UNCHANGED <<loopVars, chans, now, deferred, localVars, wakeAt,
                   callIters, iterSeq, updates, updateArg, phaseEnd,
                   stopDone, afterStop, midSets,
                   pubIter, asked>>

\* Stop(), line 451: l.isRunning = false
StopSetRunning(c) ==
    /\ pc[c] = "Stop_set"
    /\ isRunning' = FALSE
    /\ pc' = [pc EXCEPT ![c] = "Stop_close"]
    /\ UNCHANGED <<targetFps, msPerFrame, stopCh, input, update, render,
                   recoverFunc, currentFps, chans, now, op, ret, deferred,
                   localVars, wakeAt, histVars>>

\* Stop(), lines 452-453: close(l.stopCh); return nil.  Closing the nil
\* channel or a closed channel panics, and Stop() has no recover.
StopClose(c) ==
    /\ pc[c] = "Stop_close"
    /\ pc' = [pc EXCEPT ![c] = "idle"]
    /\ IF stopCh = NILCH
       THEN /\ ret' = [ret EXCEPT ![c] = PANIC_CLOSE_NIL]
            /\ UNCHANGED <<chans, stopDone>>
       ELSE IF chans[stopCh] = CLOSED
       THEN /\ ret' = [ret EXCEPT ![c] = PANIC_CLOSE_CLOSED]
            /\ UNCHANGED <<chans, stopDone>>
       ELSE /\ chans' = [chans EXCEPT ![stopCh] = CLOSED]
            /\ ret' = [ret EXCEPT ![c] = NIL]
            /\ stopDone' = [r \in Ctx |-> stopDone[r] \/ pc[r] \in LoopPcs]
    /\ UNCHANGED <<loopVars, now, op, deferred, localVars, wakeAt,
                   callIters, iterSeq, updates, updateArg, phaseEnd,
                   stopCalled, afterStop, midSets,
                   pubIter, asked>>

(* ------------------------------------------------------------------- run *)

\* Goroutine c invokes phase k: the call begins now.
NotePhase(c, k) ==
    /\ wakeAt' = [wakeAt EXCEPT ![c] = now]
    /\ iterSeq' = [iterSeq EXCEPT ![c] = Append(@, k)]
    /\ afterStop' = [afterStop EXCEPT
                       ![c][k] = IF stopDone[c] THEN @ + 1 ELSE @]

\* runMake making a channel only when the Loop has none yet.
runMake_KeepChannel(c) ==
    /\ pc[c] = "run_make"
    /\ IF stopCh = NILCH
       THEN /\ chans' = Append(chans, OPEN)
            /\ stopCh' = Len(chans) + 1
       ELSE UNCHANGED <<chans, stopCh>>
    /\ frameCounter' = [frameCounter EXCEPT ![c] = 0]
    /\ lastFrame' = [lastFrame EXCEPT ![c] = now]
    /\ lastSecond' = [lastSecond EXCEPT ![c] = now]
    /\ phaseEnd' = [phaseEnd EXCEPT ![c] = now]
    /\ pc' = [pc EXCEPT ![c] = "run_select"]
    /\ UNCHANGED <<targetFps, msPerFrame, isRunning, input, update, render,
                   recoverFunc, currentFps, now, op, ret, deferred, start,
                   wakeAt, callIters, iterSeq, updates, updateArg,
                   stopCalled, stopDone, afterStop, midSets,
                   pubIter, asked>>

\* run(), lines 457-460: a fresh stop channel and the locals.
runMake(c) ==
    /\ pc[c] = "run_make"
    /\ chans' = Append(chans, OPEN)
    /\ stopCh' = Len(chans) + 1
    /\ frameCounter' = [frameCounter EXCEPT ![c] = 0]
    /\ lastFrame' = [lastFrame EXCEPT ![c] = now]
    /\ lastSecond' = [lastSecond EXCEPT ![c] = now]
    /\ phaseEnd' = [phaseEnd EXCEPT ![c] = now]
    /\ pc' = [pc EXCEPT ![c] = "run_select"]
    /\ UNCHANGED <<targetFps, msPerFrame, isRunning, input, update, render,
                   recoverFunc, currentFps, now, op, ret, deferred, start,
                   wakeAt, callIters, iterSeq, updates, updateArg,
                   stopCalled, stopDone, afterStop, midSets,
                   pubIter, asked>>

\* run(), lines 463-467: select { case <-l.stopCh: return; default: ... },
\* on whatever channel l.stopCh refers to now; start := time.Now().
\* When run() returns, Start() returns nil (line 442).
runSelect(c) ==
    /\ pc[c] = "run_select"
    /\ IF Readable(stopCh)
       THEN /\ pc' = [pc EXCEPT ![c] = "idle"]
            /\ ret' = [ret EXCEPT ![c] = NIL]
            /\ EndCall(c)
       ELSE /\ pc' = [pc EXCEPT ![c] = "run_input"]
            /\ start' = [start EXCEPT ![c] = now]
            /\ callIters' = [callIters EXCEPT ![c] = @ + 1]
            /\ iterSeq' = [iterSeq EXCEPT ![c] = <<>>]
            /\ UNCHANGED <<ret, deferred, frameCounter, lastFrame, lastSecond,
                           wakeAt, updates, updateArg, phaseEnd, stopCalled,
                           stopDone, afterStop, pubIter>>
    /\ UNCHANGED <<loopVars, chans, now, op, midSets, asked>>

\* runInput continuing at the render phase, past the update phase.
runInput_SkipUpdate(c) ==
    /\ pc[c] = "run_input"
    /\ IF input # NILFN
       THEN /\ pc' = [pc EXCEPT ![c] = "in_input"]
            /\ NotePhase(c, "input")
       ELSE /\ pc' = [pc EXCEPT ![c] = "run_render"]
            /\ UNCHANGED <<wakeAt, iterSeq, afterStop>>
    /\ UNCHANGED <<loopVars, chans, now, op, ret, deferred, localVars,
                   callIters, updates, updateArg, phaseEnd, stopCalled,
                   stopDone, midSets, pubIter, asked>>

\* run(), lines 469-471: if l.input != nil { l.input() }
runInput(c) ==
    /\ pc[c] = "run_input"
    /\ IF input # NILFN
       THEN /\ pc' = [pc EXCEPT ![c] = "in_input"]
            /\ NotePhase(c, "input")
       ELSE /\ pc' = [pc EXCEPT ![c] = "run_update"]
            /\ UNCHANGED <<wakeAt, iterSeq, afterStop>>
    /\ UNCHANGED <<loopVars, chans, now, op, ret, deferred, localVars,
                   callIters, updates, updateArg, phaseEnd, stopCalled,
                   stopDone, midSets, pubIter, asked>>

\* The argument of the update callback, line 475: time.Since(lastFrame).
UpdateDelta_SinceStart(c) == now - start[c]
UpdateDelta(c) == now - lastFrame[c]

\* run(), lines 473-476: if l.update != nil { l.update(time.Since(lastFrame)) }
runUpdate(c) ==
    /\ pc[c] = "run_update"
    /\ IF update # NILFN
       THEN /\ pc' = [pc EXCEPT ![c] = "in_update"]
            /\ NotePhase(c, "update")
            /\ updateArg' = [updateArg EXCEPT ![c] = UpdateDelta(c)]
            /\ updates' = [updates EXCEPT ![c] = @ + 1]
       ELSE /\ pc' = [pc EXCEPT ![c] = "run_render"]
            /\ UNCHANGED <<wakeAt, iterSeq, afterStop, updateArg, updates>>
    /\ UNCHANGED <<loopVars, chans, now, op, ret, deferred, localVars,
                   callIters, phaseEnd, stopCalled, stopDone, midSets,
                   pubIter, asked>>

\* run(), lines 478-480: if l.render != nil { l.render() }
runRender(c) ==
    /\ pc[c] = "run_render"
    /\ IF render # NILFN
       THEN /\ pc' = [pc EXCEPT ![c] = "in_render"]
            /\ NotePhase(c, "render")
            /\ UNCHANGED phaseEnd
       ELSE /\ pc' = [pc EXCEPT ![c] = "run_finish"]
            /\ phaseEnd' = [phaseEnd EXCEPT ![c] = now]
            /\ UNCHANGED <<wakeAt, iterSeq, afterStop>>
    /\ UNCHANGED <<loopVars, chans, now, op, ret, deferred, localVars,
                   callIters, updates, updateArg, stopCalled, stopDone,
                   midSets, pubIter, asked>>

\* Where run() continues when the callback it is in returns.
AfterCallback(p) ==
    CASE p = "in_input" -> "run_update"
      [] p = "in_update" -> "run_render"
      [] p = "in_render" -> "run_finish"

\* A callback returns, w ms after it was called at the earliest.
Return(c, w) ==
    /\ pc[c] \in InCallback
    /\ now' = Max(now, wakeAt[c] + w)
    /\ wakeAt' = [wakeAt EXCEPT ![c] = 0]
    /\ pc' = [pc EXCEPT ![c] = AfterCallback(pc[c])]
    /\ phaseEnd' = [phaseEnd EXCEPT
                      ![c] = IF pc[c] = "in_render" THEN now' ELSE @]
    /\ updateArg' = [updateArg EXCEPT ![c] = 0]
    /\ UNCHANGED <<loopVars, chans, op, ret, deferred, localVars, callIters,
                   iterSeq, updates, stopCalled, stopDone, afterStop,
                   midSets, pubIter, asked>>

\* Panic without the deferred recover of lines 424-430.
Panic_Propagates(c) ==
    /\ pc[c] \in InCallback
    /\ pc' = [pc EXCEPT ![c] = "idle"]
    /\ ret' = [ret EXCEPT ![c] = PANIC_CALLBACK]
    /\ EndCall(c)
    /\ UNCHANGED <<loopVars, chans, now, op, midSets, asked>>

\* A callback panics.  The stack unwinds through run() into Start(), lines
\* 424-430: the deferred function, if Start() registered one, calls
\* l.recoverFunc(r) (a nil func by now panics again), and Start() returns
\* its zero result; otherwise the panic leaves Start().
Panic(c) ==
    /\ pc[c] \in InCallback
    /\ pc' = [pc EXCEPT ![c] = "idle"]
    /\ ret' = [ret EXCEPT ![c] =
                 IF deferred[c]
                 THEN IF recoverFunc # NILFN THEN RECOVERED ELSE PANIC_NIL_FUNC
                 ELSE PANIC_CALLBACK]
    /\ EndCall(c)
    /\ UNCHANGED <<loopVars, chans, now, op, midSets, asked>>

\* Line 492: sleepTime := int64(l.msPerFrame) - time.Since(start).Milliseconds()
SleepTime_SinceLastFrame(c) == msPerFrame - (now - lastFrame'[c])
SleepTime(c) == msPerFrame - (now - start[c])

\* Lines 484 and 487: frameCounter++, then l.currentFps = frameCounter.
PublishedFps_BeforeCount(c) == frameCounter[c]
PublishedFps(c) == frameCounter[c] + 1

\* Line 486: if time.Since(lastSecond).Seconds() >= 1
WindowOver_Millis(c) == now - lastSecond[c] >= 1
WindowOver_Half(c) == 2 * (now - lastSecond[c]) >= MS_PER_SECOND
WindowOver(c) == now - lastSecond[c] >= MS_PER_SECOND

\* run(), lines 483-495: the frame is finished; the meter publishes the
\* frame count once a second has passed since lastSecond; then the loop
\* sleeps for the rest of the frame's budget, if any is left.
runFinish(c) ==
    /\ pc[c] = "run_finish"
    /\ lastFrame' = [lastFrame EXCEPT ![c] = now]
    /\ IF WindowOver(c)
       THEN /\ currentFps' = PublishedFps(c)
            /\ lastSecond' = [lastSecond EXCEPT ![c] = now]
            /\ frameCounter' = [frameCounter EXCEPT ![c] = 0]
            /\ pubIter' = [pubIter EXCEPT ![c] = callIters[c]]
       ELSE /\ frameCounter' = [frameCounter EXCEPT ![c] = @ + 1]
            /\ UNCHANGED <<currentFps, lastSecond, pubIter>>
    /\ IF SleepTime(c) > 0
       THEN /\ pc' = [pc EXCEPT ![c] = "run_sleep"]
            /\ wakeAt' = [wakeAt EXCEPT ![c] = now + SleepTime(c)]
       ELSE /\ pc' = [pc EXCEPT ![c] = "run_select"]
            /\ UNCHANGED wakeAt
    /\ UNCHANGED <<targetFps, msPerFrame, stopCh, isRunning, input, update,
                   render, recoverFunc, chans, now, op, ret, deferred, start,
                   callIters, iterSeq, updates, updateArg, phaseEnd,
                   stopCalled, stopDone, afterStop, midSets, asked>>

\* time.Sleep returns, j ms after the duration asked for at the earliest.
Wake(c, j) ==
    /\ pc[c] = "run_sleep"
    /\ now' = Max(now, wakeAt[c] + j)
    /\ wakeAt' = [wakeAt EXCEPT ![c] = 0]
    /\ pc' = [pc EXCEPT ![c] = "run_select"]
    /\ UNCHANGED <<loopVars, chans, op, ret, deferred, localVars, histVars>>

(* ------------------------------------------ the lifecycle specification *)

\* Its bounds: MaxChans runs, MaxIter iterations begun by each, and MaxSets
\* setter calls while a goroutine is inside Start().
Starting == {c \in Ctx : pc[c] \in {"Start_isRunning", "Start_set", "run_make"}}
MayStart == Len(chans) + Cardinality(Starting) < MaxChans
MayIterate(c) == Readable(stopCh) \/ callIters[c] < MaxIter
MaySet == Busy => midSets < MaxSets

Configure(c) ==
    \/ \E f \in Funcs : SetUpdateFunc(c, f)
    \/ \E f \in Funcs : SetInputFunc(c, f)
    \/ \E f \in Funcs : SetRenderFunc(c, f)
    \/ \E f \in Funcs : SetRecoverFunc(c, f)

StartStep(c) ==
    \/ MayStart /\ StartCall(c)
    \/ StartCheckRunning(c)
    \/ StartSetRunning(c)

StopStep(c) ==
    \/ StopCall(c)
    \/ StopSetRunning(c)
    \/ StopClose(c)

RunStep(c) ==
    \/ runMake(c)
    \/ MayIterate(c) /\ runSelect(c)
    \/ runInput(c)
    \/ runUpdate(c)
    \/ runRender(c)
    \/ runFinish(c)

\* Goroutines call the setters, Start() and Stop() at any time; callbacks
\* return at once or panic.
Next ==
    \E c \in Ctx :
        \/ MaySet /\ Configure(c)
        \/ StartStep(c)
        \/ StopStep(c)
        \/ RunStep(c)
        \/ Return(c, 0)
        \/ Panic(c)

Spec == Init /\ [][Next]_vars

(* ---------------------------------------- the configuration specification *)

\* The rates passed to SetTargetFps: negative, zero and positive.
Rates == (0 - MaxRate)..MaxRate

InitConfig ==
    /\ NewLoop
    /\ InitRest
    /\ pc = [c \in Ctx |-> "idle"]
    /\ wakeAt = [c \in Ctx |-> 0]

\* Goroutines set and read the target rate of a Loop that is not running.
NextConfig ==
    \E c \in Ctx :
        \/ \E r \in Rates : SetTargetFps(c, r)
        \/ GetTargetFps(c)

SpecConfig == InitConfig /\ [][NextConfig]_vars

(* ------------------------------------------------ the timed specification *)

\* The tests of src/gyro_test.go: one goroutine calls Start() on a Loop with
\* an update callback, another sleeps and then calls Stop().
Runner == "g1"
Stopper == "g2"

\* time.Sleep(2 * time.Second) before loop.Stop(), in ms.
StopAfter == 2000

\* The loops of the timed runs and the time after which they are stopped:
\* TestFrameRate (rate 45, update only), TestGetCurrentFps (rate 7, update
\* only), a loop with all three phases, and a short run of a loop whose
\* three phases can take longer than its frame budget of 1 ms.
TimedLoops ==
    { [fps |-> 45, in |-> NILFN, re |-> NILFN, stop |-> StopAfter],
      [fps |-> 7, in |-> NILFN, re |-> NILFN, stop |-> StopAfter],
      [fps |-> 7, in |-> FN, re |-> FN, stop |-> StopAfter],
      [fps |-> 1000, in |-> FN, re |-> FN, stop |-> 10] }

\* The runner is about to call Start(), the stopper sleeps.
InitLoop(l) ==
    /\ Built(l.fps, l.in, FN, l.re, NILFN)
    /\ InitRest
    /\ pc = [c \in Ctx |-> IF c = Stopper THEN "timer" ELSE "idle"]
    /\ wakeAt = [c \in Ctx |-> IF c = Stopper THEN l.stop ELSE 0]

InitTimed == \E l \in TimedLoops : InitLoop(l)

\* The time.Sleep of the stopping goroutine returns.
TimerFire(c, j) ==
    /\ pc[c] = "timer"
    /\ now' = Max(now, wakeAt[c] + j)
    /\ wakeAt' = [wakeAt EXCEPT ![c] = 0]
    /\ pc' = [pc EXCEPT ![c] = "idle"]
    /\ op' = [op EXCEPT ![c] = "Sleep"]
    /\ UNCHANGED <<loopVars, chans, ret, deferred, localVars, histVars>>

\* The channels closed so far.
Closed == {i \in DOMAIN chans : chans[i] = CLOSED}

\* In the restart specification the runner calls Start() again as soon as
\* Start() has returned nil, and the stopper sleeps again as soon as its
\* Stop() has returned nil, until MaxChans runs were made and stopped.
Restarting(c) ==
    /\ c = Runner /\ pc[c] = "idle"
    /\ op[c] = "Start" /\ ret[c] = NIL
    /\ Len(chans) < MaxChans
Rearming(c) ==
    /\ c = Stopper /\ pc[c] = "idle"
    /\ op[c] = "Stop" /\ ret[c] = NIL
    /\ Cardinality(Closed) < MaxChans

\* The stopping goroutine calls time.Sleep again.
TimerArm(c) ==
    /\ Rearming(c)
    /\ pc' = [pc EXCEPT ![c] = "timer"]
    /\ wakeAt' = [wakeAt EXCEPT ![c] = now + StopAfter]
    /\ ret' = [ret EXCEPT ![c] = NONE]
    /\ UNCHANGED <<loopVars, chans, now, op, deferred, localVars, histVars>>

\* Goroutine c has a step to take that takes no time.
Pending(c) ==
    \/ pc[c] \notin {"idle", "run_sleep", "timer"} \cup InCallback
    \/ pc[c] = "idle" /\ c = Runner /\ op[c] = "none"
    \/ pc[c] = "idle" /\ op[c] = "Sleep"

\* The same in the restart specification.
PendingRestart(c) == Pending(c) \/ Restarting(c) \/ Rearming(c)

\* Goroutine d has such a step; restart tells the restart specification
\* from the timed one.
Waits(d, restart) == IF restart THEN PendingRestart(d) ELSE Pending(d)

\* The latest time at which what goroutine d waits for is over.
Deadline(d) ==
    IF pc[d] \in {"run_sleep", "timer"} THEN wakeAt[d] + MaxJitter
    ELSE wakeAt[d] + MaxWork

\* The step of goroutine c may end at time t: the clock passes no step that
\* another goroutine has to take before.
Passes(c, t, restart) ==
    t > now =>
        \A d \in Ctx \ {c} :
            /\ ~Waits(d, restart)
            /\ pc[d] \in {"run_sleep", "timer"} \cup InCallback
                  => t <= Deadline(d)

Timely(c, t) == Passes(c, t, FALSE)

\* A step of goroutine c in a timed run (restart: of the restart
\* specification).
TimedStep(c, restart) ==
    \/ c = Runner /\ op[c] = "none" /\ StartCall(c)
    \/ StartCheckRunning(c)
    \/ StartSetRunning(c)
    \/ runMake(c)
    \/ runSelect(c)
    \/ runInput(c)
    \/ runUpdate(c)
    \/ runRender(c)
    \/ runFinish(c)
    \/ \E w \in 0..MaxWork : Passes(c, wakeAt[c] + w, restart) /\ Return(c, w)
    \/ \E j \in 0..MaxJitter : Passes(c, wakeAt[c] + j, restart) /\ Wake(c, j)
    \/ \E j \in 0..MaxJitter : Passes(c, wakeAt[c] + j, restart) /\ TimerFire(c, j)
    \/ op[c] = "Sleep" /\ StopCall(c)
    \/ StopSetRunning(c)
    \/ StopClose(c)

NextTimed == \E c \in Ctx : TimedStep(c, FALSE)

SpecTimed == InitTimed /\ [][NextTimed]_vars

(* ---------------------------------------------- the restart specification *)

\* The loop that is run, stopped and run again: that of TestGetCurrentFps.
RestartLoops == {l \in TimedLoops : l.fps = 7 /\ l.in = NILFN}

InitRestart == \E l \in RestartLoops : InitLoop(l)

NextRestart ==
    \E c \in Ctx :
        \/ TimedStep(c, TRUE)
        \/ Restarting(c) /\ StartCall(c)
        \/ TimerArm(c)

SpecRestart == InitRestart /\ [][NextRestart]_vars

(* ------------------------------------------------ claims: the lifecycle *)

\* Goroutine c makes the first step of a call of Start() or of Stop().
StartCalled(c) ==
    /\ pc[c] = "idle"
    /\ op'[c] = "Start"
    /\ <<pc[c], op[c], ret[c]>> # <<pc'[c], op'[c], ret'[c]>>
StopCalled(c) ==
    /\ pc[c] = "idle"
    /\ op'[c] = "Stop"
    /\ <<pc[c], op[c], ret[c]>> # <<pc'[c], op'[c], ret'[c]>>

\* The call changes nothing of the Loop, of its channels or of the history
\* of phase invocations.
NoEffect == UNCHANGED <<loopVars, chans, now, callVars>>

\* C1: Start() with no update callback registered returns ERR_NO_UPDATE_FUNC
\* at once: it begins no iteration, invokes no callback, and leaves every
\* field of the Loop (isRunning, the stop channel, the rates, the callbacks,
\* the recover handler) as it was.
C1_StartWithoutUpdate ==
    [][\A c \in Ctx :
         (StartCalled(c) /\ update = NILFN) =>
            /\ ret'[c] = ERR_NO_UPDATE_FUNC
            /\ pc'[c] = "idle"
            /\ NoEffect]_vars

\* C1 witness: Start() has returned the error on a Loop that has an input
\* callback, a render callback and a recover handler, and is not running.
C1_Witness ==
    \E c \in Ctx :
        /\ op[c] = "Start" /\ ret[c] = ERR_NO_UPDATE_FUNC /\ pc[c] = "idle"
        /\ update = NILFN /\ input = FN /\ render = FN /\ recoverFunc = FN
        /\ ~isRunning

\* C2: at most one goroutine is inside run() at any time.
C2_AtMostOneRun == Cardinality({c \in Ctx : pc[c] \in RunPcs}) <= 1

\* C3: a Start() that finds an update callback and isRunning true returns
\* nil at once: neither of its steps changes a field of the Loop, a channel
\* or the history of phase invocations, and it does not enter run().
C3_StartWhileRunning ==
    [][\A c \in Ctx :
         /\ StartCalled(c) => NoEffect
         /\ (pc[c] = "Start_isRunning" /\ pc'[c] # pc[c] /\ isRunning) =>
               /\ ret'[c] = NOOP
               /\ pc'[c] = "idle"
               /\ NoEffect]_vars

\* C3 witness: Start() has returned nil as a no-op while another goroutine
\* is iterating in run().
C3_Witness ==
    \E c, d \in Ctx :
        /\ op[c] = "Start" /\ ret[c] = NOOP /\ pc[c] = "idle"
        /\ pc[d] \in LoopPcs /\ callIters[d] > 0
        /\ isRunning

\* C4: a Stop() that finds isRunning false returns nil at once and changes
\* nothing: isRunning stays false and the stop channel is not touched.
C4_StopWhileStopped ==
    [][\A c \in Ctx :
         (StopCalled(c) /\ ~isRunning) =>
            /\ ret'[c] = NOOP
            /\ pc'[c] = "idle"
            /\ ~isRunning'
            /\ NoEffect]_vars

\* C4 witness: Stop() has returned nil as a no-op after an earlier Stop()
\* had closed the stop channel.
C4_Witness ==
    \E c \in Ctx :
        /\ op[c] = "Stop" /\ ret[c] = NOOP /\ pc[c] = "idle"
        /\ ~isRunning
        /\ stopCh # NILCH /\ chans[stopCh] = CLOSED

\* C5: Stop() always returns nil: it never panics on closing the nil channel
\* or a channel that is closed already.
C5_StopAlwaysSucceeds ==
    \A c \in Ctx : op[c] = "Stop" => ret[c] \notin Panics

\* A call of Stop() is in progress.
Stopping == \E d \in Ctx : pc[d] \in {"Stop_set", "Stop_close"}

\* C6: once a Stop() that was called on the running loop is over, the
\* cancellation is there for the loop to observe: the channel that run()
\* polls at the top of its next iteration is closed, so that Start() returns.
C6_StoppedRunEnds ==
    \A c \in Ctx :
        (pc[c] \in LoopPcs /\ stopCalled[c] /\ ~Stopping) => Readable(stopCh)

\* C7: after a Stop() that found the loop running has returned, a run
\* invokes each of input, update and render at most once more.
C7_OneIterationAfterStop ==
    \A c \in Ctx : \A k \in DOMAIN NoCalls : afterStop[c][k] <= 1

\* The number of invocations of phase k in the sequence q.
Count(q, k) == Cardinality({i \in DOMAIN q : q[i] = k})

\* The position of phase k in the order input, update, render.
PhaseIndex(k) == CHOOSE i \in DOMAIN Phases : Phases[i] = k

\* q invokes phases in the order input, update, render, each at most once.
InOrder(q) ==
    \A i, j \in DOMAIN q : i < j => PhaseIndex(q[i]) < PhaseIndex(q[j])

\* The callback a goroutine is in is the one it invoked last: the phases
\* before it have returned.
NoOverlap(c) ==
    pc[c] \in InCallback =>
        /\ iterSeq[c] # <<>>
        /\ pc[c] = "in_" \o iterSeq[c][Len(iterSeq[c])]

\* An iteration of goroutine c ends in this step: its phases are over, or
\* a callback panics.
IterationEnds(c) ==
    \/ pc[c] = "run_finish" /\ pc'[c] # pc[c]
    \/ pc[c] \in InCallback /\ pc'[c] = "idle"

C9_UpdateDelta ==
    \A c \in Ctx :
        pc[c] = "in_update" => updateArg[c] = wakeAt[c] - phaseEnd[c]

\* C9 witness: update is invoked in a later iteration of a paced run with
\* at least the whole frame budget as its argument, although no callback
\* takes longer than MaxWork: the sleep is part of the argument.
C9_Witness ==
    \E c \in Ctx :
        /\ pc[c] = "in_update" /\ callIters[c] >= 2
        /\ msPerFrame > 3 * MaxWork
        /\ updateArg[c] >= msPerFrame

\* The rate and the tolerance of TestFrameRate.
FrameRateTarget == 45
FrameRateTolerance == 5

\* x differs from FrameRateTarget by FrameRateTolerance at most.
InTolerance(x) ==
    /\ x >= FrameRateTarget - FrameRateTolerance
    /\ x <= FrameRateTarget + FrameRateTolerance

\* C10: a loop with target rate 45 and an update callback of up to MaxWork
\* ms runs, with sleeps that overshoot by up to MaxJitter ms, until Stop() is
\* called StopAfter ms after Start(); when Start() returns, the rate that
\* GetCurrentFps() publishes and the number of update invocations per
\* second of the run are both within 5 of 45.
C10_FrameRate ==
    [][\A c \in Ctx :
         (/\ targetFps = FrameRateTarget
          /\ pc[c] = "run_select" /\ pc'[c] = "idle")
         => /\ InTolerance(currentFps')
            /\ updates[c] * MS_PER_SECOND
                  >= (FrameRateTarget - FrameRateTolerance) * StopAfter
            /\ updates[c] * MS_PER_SECOND
                  <= (FrameRateTarget + FrameRateTolerance) * StopAfter]_vars

\* C10 witness: Start() has returned nil from a run at rate 45 that Stop()
\* ended after StopAfter ms, and a rate within the tolerance is published.
C10_Witness ==
    /\ targetFps = FrameRateTarget
    /\ op[Runner] = "Start" /\ ret[Runner] = NIL /\ pc[Runner] = "idle"
    /\ op[Stopper] = "Stop" /\ ret[Stopper] = NIL
    /\ now >= StopAfter
    /\ InTolerance(currentFps)

(* --------------------------------------------- claims: the configuration *)

\* Goroutine c makes a call of GetTargetFps() (one that returns what the
\* goroutine's previous call returned leaves the state as it is).
GetCalled(c) ==
    /\ pc[c] = "idle"
    /\ op'[c] = "GetTargetFps"
    /\ <<op[c], ret[c]>> # <<op'[c], ret'[c]>>

\* C11: GetTargetFps() returns the argument r of the last SetTargetFps call
\* (of NewLoop()'s SetTargetFps(DEFAULT_FPS) when there was none) when
\* r >= 1, and 1 when r < 1; the field holds that value in every state.
C11_TargetFpsRoundTrip ==
    [][/\ targetFps' = (IF asked' >= 1 THEN asked' ELSE 1)
       /\ \A c \in Ctx :
            GetCalled(c) =>
               ret'[c] = ToString(IF asked >= 1 THEN asked ELSE 1)]_vars

\* C11 witness: GetTargetFps() returns 1 after SetTargetFps(r) with r < 1,
\* on a Loop whose rate was MaxRate before (the other goroutine read it).
C11_Witness ==
    \E c, d \in Ctx :
        /\ asked < 1
        /\ op[c] = "GetTargetFps" /\ ret[c] = ToString(1)
        /\ op[d] = "GetTargetFps" /\ ret[d] = ToString(MaxRate)

(* ------------------------------------------------- claims: the recovery *)

\* The callback that goroutine c is in panics in this step.
Panicking(c) == pc[c] \in InCallback /\ pc'[c] = "idle"

\* No goroutine other than c is inside Start().
Alone(c) ==
    \A d \in Ctx \ {c} :
        pc[d] \notin {"Start_isRunning", "Start_set"} \cup RunPcs

C13_StoppedAfterRecover ==
    \A c \in Ctx :
        (/\ op[c] = "Start" /\ ret[c] = RECOVERED /\ pc[c] = "idle"
         /\ Alone(c) /\ ~Stopping)
        => ~isRunning

(* ----------------------------------------------------- claims: the meter *)

CurrentFpsTarget == 7

\* C15: when Start() returns from a run at rate 7 that Stop() ended
\* StopAfter ms (D = 2 whole seconds) after it began, the rate that
\* GetCurrentFps() returns is the number of update invocations of the run
\* divided by D.
C15_CurrentFpsIsAverage ==
    [][\A c \in Ctx :
         (/\ targetFps = CurrentFpsTarget
          /\ pc[c] = "run_select" /\ pc'[c] = "idle")
         => currentFps' = updates[c] \div (StopAfter \div MS_PER_SECOND)]_vars

(* --------------------------------------------------- claims: the restart *)

Accesses(c) ==
    CASE pc[c] = "idle" ->
            { [field |-> "isRunning", write |-> FALSE],
              [field |-> "currentFps", write |-> FALSE] }
      [] pc[c] = "Start_isRunning" ->
            { [field |-> "isRunning", write |-> FALSE] }
      [] pc[c] \in {"Start_set", "Stop_set"} ->
            { [field |-> "isRunning", write |-> TRUE] }
      [] pc[c] = "run_make" -> { [field |-> "stopCh", write |-> TRUE] }
      [] pc[c] \in {"run_select", "Stop_close"} ->
            { [field |-> "stopCh", write |-> FALSE] }
      [] pc[c] = "run_finish" /\ WindowOver(c) ->
            { [field |-> "currentFps", write |-> TRUE] }
      [] OTHER -> {}

\* Goroutines c and d can access the same field next, in either order, and
\* one of the accesses is a write.
Race(c, d) ==
    \E a \in Accesses(c) : \E b \in Accesses(d) :
        a.field = b.field /\ (a.write \/ b.write)

\* C17: no two goroutines are ever about to access isRunning, stopCh or
\* currentFps, one of them writing, with nothing that orders the accesses.
C17_RaceFree == \A c, d \in Ctx : c # d => ~Race(c, d)

(* ---------------------------------------------------- claims: the pacing *)

\* Goroutine c ends an iteration in this step (lines 483-495).
Finishing(c) == pc[c] = "run_finish" /\ pc'[c] # "run_finish"

\* C18: whatever the target rate r >= 1, an iteration whose phases took
\* less than the budget of 1 second / r (elapsed * r < 1000 ms) finds a
\* budget above zero and sleeps, and the sleep does not end before a whole
\* budget has passed since the iteration's start.
C18_FastIterationSleeps ==
    [][\A c \in Ctx :
         (/\ Finishing(c)
          /\ targetFps >= 1
          /\ (now - start[c]) * targetFps < MS_PER_SECOND)
         => /\ msPerFrame > 0
            /\ pc'[c] = "run_sleep"
            /\ (wakeAt'[c] - start[c]) * targetFps >= MS_PER_SECOND]_vars

\* C19: at the end of an iteration the loop sleeps for the frame budget
\* minus the time passed since the start of this very iteration when that
\* is positive, and goes on to the next iteration without sleeping when it
\* is not; no other iteration enters into it.
C19_PacingSleep ==
    [][\A c \in Ctx :
         Finishing(c) =>
            IF msPerFrame - (now - start[c]) > 0
            THEN /\ pc'[c] = "run_sleep"
                 /\ wakeAt'[c] - now = msPerFrame - (now - start[c])
            ELSE /\ pc'[c] = "run_select"
                 /\ wakeAt'[c] = wakeAt[c]]_vars

\* C19 witness: the first iteration of a run overran its budget (the second
\* began later after the run's start at time 0 than a sleep to the end of
\* the budget could have lasted), and the second, whose phases took no
\* time, sleeps for a whole budget all the same.
C19_Witness ==
    \E c \in Ctx :
        /\ pc[c] = "run_sleep" /\ callIters[c] = 2
        /\ msPerFrame > 0
        /\ start[c] > msPerFrame + MaxJitter
        /\ now = start[c]
        /\ wakeAt[c] = now + msPerFrame

\* C20: the meter counts one pass for every iteration that ends; the end of
\* an iteration at which a second or more has passed since the window
\* began sets currentFps to the number of iterations that ended since the
\* last publication (since the run began when there was none), this one
\* included, and resets the pass counter and the window start together; the
\* end of any other iteration adds one to the counter and leaves the window
\* start and currentFps as they are; no other step changes currentFps.
C20_MeterWindow ==
    [][/\ \A c \in Ctx :
            Finishing(c) =>
               /\ frameCounter[c] + 1 = callIters[c] - pubIter[c]
               /\ IF now - lastSecond[c] >= MS_PER_SECOND
                  THEN /\ currentFps' = callIters[c] - pubIter[c]
                       /\ frameCounter'[c] = 0
                       /\ lastSecond'[c] = now
                  ELSE /\ currentFps' = currentFps
                       /\ frameCounter'[c] = frameCounter[c] + 1
                       /\ lastSecond'[c] = lastSecond[c]
       /\ (\A c \in Ctx : ~Finishing(c)) => currentFps' = currentFps]_vars

\* C20 witness: a run has just published for the second time: as many
\* iterations as ended since its first publication, counter and window
\* start reset.
C20_Witness ==
    \E c \in Ctx :
        /\ pc[c] = "run_sleep"
        /\ pubIter[c] = callIters[c] /\ pubIter[c] > currentFps
        /\ currentFps > 0
        /\ frameCounter[c] = 0 /\ lastSecond[c] = lastFrame[c]

====
